---- MODULE Spec2Model ----
(***************************************************************************)
(* tldr-rss: the retrying feed fetcher (src/src/news.ts getRSSFeed), the   *)
(* article scraper (src/src/news.ts fetchNews), the output writers         *)
(* (src/src/rss.ts writeRssFeed, html.ts writeHtmlFeed) and the aggregator *)
(* that drives them (src/src/index.ts fetchFeeds).                         *)
(*                                                                         *)
(* Spec      the whole run: fetchFeeds().then(summarizeNews).catch(...)    *)
(* SpecFetch one getRSSFeed call (topic 1), every error shape              *)
(* SpecUnit  fetchNews / writeRssFeed / writeHtmlFeed applied to inputs    *)
(*           drawn from bounded sets                                       *)
(*                                                                         *)
(* Optional values (undefined / null in the source) are sequences of       *)
(* length 0 or 1: <<>> is "absent", <<v>> is "present with value v".       *)
(***************************************************************************)
EXTENDS Integers, Sequences, FiniteSets

VARIABLES
  \* ---- fetchFeeds (index.ts) ----
  pc,            \* position of fetchFeeds
  topic,         \* index into feeds of the for-of loop (line 43)
  recentItems,   \* recentItems of the current topic (line 50)
  itemIdx,       \* index of the for-of loop over recentItems (line 60)
  feedNews,      \* feedNews of the current topic (line 46)
  dateWithNews,  \* dateWithNews (line 35)
  files,         \* files written under ./static
  failure,       \* <<e>> once the rejection reached .catch(setFailed)
  returned,      \* <<list>> once fetchFeeds resolved
  \* ---- getRSSFeed (news.ts) ----
  fpc,           \* position of the current getRSSFeed call
  attemptCount,  \* attemptCount (line 15)
  fresult,       \* <<doc>> once the call returned
  delaySeconds,  \* <<delaySeconds>> while the wait of line 55 is pending
  \* ---- SpecUnit: one call of a pure function ----
  call,          \* [fn, ...arguments] of the call
  ret,           \* <<result>> once the call completed
  \* ---- history (not program state) ----
  parseCalls,    \* parser.parseURL invocations of the current getRSSFeed call
  waits,         \* setTimeout waits started by the current getRSSFeed call
  n429,          \* attempts of the current call that failed rate limited
  raised,        \* <<e>>: the error the latest attempt raised
  lastDoc,       \* <<doc>>: the document the latest attempt produced
  warned,        \* the retries-exhausted warning (line 35) was logged
  handed,        \* <<list>>: what writeRssFeed("feed", ...) was handed
  fatal,         \* topic during which a fatal condition was raised, else 0
  log,           \* operations started so far, in order
  scraped,       \* fetchNews calls of the current topic and what they returned
  priorLimited   \* an earlier getRSSFeed call of the run failed rate limited

vars == <<pc, topic, recentItems, itemIdx, feedNews, dateWithNews, files,
          failure, returned, fpc, attemptCount, fresult, delaySeconds,
          call, ret, parseCalls, waits, n429, raised, lastDoc, warned,
          handed, fatal, log, scraped, priorLimited>>

runVars == <<topic, recentItems, itemIdx, feedNews, dateWithNews, files,
             returned, handed, log, scraped, priorLimited>>

fetchHist == <<parseCalls, waits, n429, raised, lastDoc, warned>>

unitVars == <<call, ret>>

----------------------------------------------------------------------------
(* Bounds *)

NumTopics == 2      \* how many of the configured topics the run covers
MaxHintLen == 2     \* characters of a retry-after header value
MaxHeadings == 3    \* h3 elements of a scraped page
MaxPosts == 2       \* posts handed to a writer called on its own
MaxItems == 4       \* items of a feed document handed to the date filter

----------------------------------------------------------------------------
(* Generic helpers *)

Some(x) == <<x>>
None == <<>>

SeqsUpTo(S, n) == UNION {[1..k -> S] : k \in 0..n}

Min(a, b) == IF a < b THEN a ELSE b

----------------------------------------------------------------------------
(* Errors thrown by parser.parseURL, as getRSSFeed inspects them:          *)
(*   response : <<>> or <<[status, headers]>>                              *)
(*     status : <<>> or <<n>>                                              *)
(*     headers: <<>> or <<[retryAfter]>>, retryAfter <<>> or <<chars>>     *)
(*   isError  : error instanceof Error                                     *)
(*   message  : error.message, a sequence of words                         *)

HintChars == {"1", "0", "a", " ", "-"}
Hints == SeqsUpTo(HintChars, MaxHintLen)

HeaderSets == {None} \cup {Some([retryAfter |-> r]) :
                              r \in {None} \cup {Some(h) : h \in Hints}}
Responses == {None} \cup {Some([status |-> s, headers |-> h]) :
                              s \in {None, Some(429), Some(404)},
                              h \in HeaderSets}
Messages == { <<"Status", "code", "429">>,
              <<"Error:", "Status", "code", "429", "received">>,
              <<"Status", "code", "404">>,
              <<"Too", "Many", "Requests">> }

Errors == [response : Responses, isError : BOOLEAN, message : Messages]

\* The error shapes of the test suite (news.test.ts 80-87, 153-156, 211).
Error429Header == [response |-> Some([status |-> Some(429),
                       headers |-> Some([retryAfter |-> Some(<<"1">>)])]),
                   isError |-> TRUE, message |-> <<"Too", "Many", "Requests">>]
Error429Message == [response |-> None, isError |-> TRUE,
                    message |-> <<"Status", "code", "429">>]
Error404 == [response |-> Some([status |-> Some(404), headers |-> None]),
             isError |-> TRUE, message |-> <<"Status", "code", "404">>]
RunErrors == {Error429Header, Error429Message, Error404}

\* String.prototype.includes, on words: needle occurs contiguously in hay.
Includes(hay, needle) ==
  \E i \in 0..(Len(hay) - Len(needle)) :
     \A k \in 1..Len(needle) : hay[i + k] = needle[k]

\* Mutants of is429Error: any structured status counts; the message is ignored.
is429ErrorAnyStatus(e) ==
  \/ (e.response # None /\ e.response[1].status # None)
  \/ (e.isError /\ Includes(e.message, <<"Status", "code", "429">>))

is429ErrorStatusOnly(e) ==
  e.response # None /\ e.response[1].status = Some(429)

\* news.ts 28-30
is429Error(e) ==
  \/ (e.response # None /\ e.response[1].status = Some(429))
  \/ (e.isError /\ Includes(e.message, <<"Status", "code", "429">>))

\* parseInt(s, 10): skip leading white space, take an optional sign, then the
\* longest run of decimal digits; NaN (<<>>) when there is no digit.
DigitChars == <<"0", "1", "2", "3", "4", "5", "6", "7", "8", "9">>
IsDigit(c) == \E i \in 1..Len(DigitChars) : DigitChars[i] = c
DigitVal(c) == (CHOOSE i \in 1..Len(DigitChars) : DigitChars[i] = c) - 1

RECURSIVE SkipSpace(_)
SkipSpace(s) ==
  IF s # <<>> /\ Head(s) = " " THEN SkipSpace(Tail(s)) ELSE s

RECURSIVE Digits(_, _)
Digits(s, acc) ==
  IF s # <<>> /\ IsDigit(Head(s))
    THEN Digits(Tail(s), Some(10 * (IF acc = None THEN 0 ELSE acc[1])
                              + DigitVal(Head(s))))
    ELSE acc

parseInt(s) ==
  LET t == SkipSpace(s)
      neg == t # <<>> /\ Head(t) = "-"
      signed == t # <<>> /\ Head(t) \in {"-", "+"}
      d == Digits(IF signed THEN Tail(t) ELSE t, None)
  IN IF d = None THEN None ELSE Some(IF neg THEN 0 - d[1] ELSE d[1])

\* news.ts 43: errorWithResponse.response?.headers?.["retry-after"]
retryAfterOf(e) ==
  IF e.response = None THEN None
  ELSE IF e.response[1].headers = None THEN None
  ELSE e.response[1].headers[1].retryAfter

DefaultDelaySeconds == 30

\* Mutant of delaySecondsOf: the header is ignored.
delaySecondsOfDefaultOnly(e) == DefaultDelaySeconds

\* news.ts 44-47: a non-empty string is truthy
delaySecondsOf(e) ==
  LET retryAfter == retryAfterOf(e)
  IN IF retryAfter # None /\ retryAfter[1] # <<>>
        /\ parseInt(retryAfter[1]) # None
       THEN parseInt(retryAfter[1])[1]
       ELSE DefaultDelaySeconds

\* Mutants of maxRetries: one retry fewer, one retry more.
maxRetriesFewer == 6 - 1
maxRetriesMore == 6 + 1

\* news.ts 14
maxRetries == 6

----------------------------------------------------------------------------
(* Feed documents returned by parser.parseURL.  An item is                  *)
(*   [isoDate |-> <<>> or <<d>>, link |-> <<>> or <<l>>]                   *)
(* A date string is modelled by the day number it denotes.                 *)

Now == 20           \* new Date() of index.ts 36, in days

\* A date string no Date can be built from ("not a date").
InvalidDateString == 0 - 1

\* new Date(s).getTime(): <<>> is NaN (Invalid Date)
timeOf(s) == IF s < 0 THEN None ELSE Some(s)

\* index.ts 12: parseInt(process.env.MAX_DAYS || "10", 10); env is <<>> when
\* the variable is unset, else <<its characters>>; <<>> as a result is NaN.
maxDaysOf(env) ==
  parseInt(IF env = None \/ env[1] = <<>> THEN <<"1", "0">> ELSE env[1])

\* process.env.MAX_DAYS of the run: unset
RunEnv == None

MAX_DAYS == maxDaysOf(RunEnv)

\* index.ts 36-37: cutoffDate.setDate(cutoffDate.getDate() - MAX_DAYS); a NaN
\* argument makes it an Invalid Date.
cutoffDateOf(maxDays) ==
  IF maxDays = None THEN None ELSE Some(Now - maxDays[1])

cutoffDate == cutoffDateOf(MAX_DAYS)

\* index.ts 15-30
AllFeeds == <<"tech", "dev", "ai", "infosec", "product", "devops",
              "founders", "design", "marketing", "crypto", "fintech", "data">>
feeds == SubSeq(AllFeeds, 1, NumTopics)

Item(d, l) == [isoDate |-> d, link |-> l]
Link(name, k) == Some([feed |-> name, n |-> k])

\* The feed documents a run may receive for topic `name`.
RunDocs(name) ==
  { <<>>,
    << Item(Some(Now - 1), Link(name, 1)) >>,
    << Item(Some(Now - 1), Link(name, 1)), Item(Some(Now - 2), Link(name, 2)) >>,
    << Item(Some(Now - 3), Link(name, 1)), Item(Some(Now - 1), Link(name, 2)) >>,
    << Item(Some(Now - 2), Link(name, 1)), Item(Some(Now - 2), Link(name, 2)) >>,
    << Item(Some(Now - 15), Link(name, 1)), Item(None, Link(name, 2)),
       Item(Some(Now - 4), None), Item(Some(Now - 5), Link(name, 4)) >> }

\* Mutant of keepItem: an item dated exactly at the cutoff is dropped.
keepItemAfterOnly(item, cutoff) ==
  /\ item.isoDate # None
  /\ timeOf(item.isoDate[1]) # None /\ cutoff # None
  /\ timeOf(item.isoDate[1])[1] > cutoff[1]

\* index.ts 51-53: the filter callback; a comparison with an Invalid Date on
\* either side is false.
keepItem(item, cutoff) ==
  /\ item.isoDate # None
  /\ timeOf(item.isoDate[1]) # None /\ cutoff # None
  /\ timeOf(item.isoDate[1])[1] >= cutoff[1]

\* index.ts 50-54: rssNews.items.filter(...)
RECURSIVE filterItems(_, _)
filterItems(items, cutoff) ==
  IF items = <<>> THEN <<>>
  ELSE (IF keepItem(Head(items), cutoff) THEN <<Head(items)>> ELSE <<>>)
         \o filterItems(Tail(items), cutoff)

filterRecent(items) == filterItems(items, cutoffDate)

----------------------------------------------------------------------------
(* fetchNews (news.ts 63-99).  A download outcome is                       *)
(*   [kind |-> "ok" | "non2xx" | "network" | "parse", h3 |-> candidates]   *)
(* and a candidate is what lines 76-79 read off one h3 element; Undef      *)
(* stands for null / undefined.                                            *)

Undef == "<undefined>"
Falsy(s) == s \in {Undef, ""}

Titles == {"", "A", "B"}          \* textContent of an element is a string
Hrefs == {Undef, "", "/a"}
Contents == {Undef, "text"}
Candidates == [title : Titles, link : Hrefs, content : Contents]
Cand(t, l, c) == [title |-> t, link |-> l, content |-> c]

Downloads ==
  {[kind |-> k, h3 |-> <<>>] : k \in {"non2xx", "network", "parse"}}
  \cup {[kind |-> "ok", h3 |-> h] : h \in SeqsUpTo(Candidates, MaxHeadings)}

\* The download outcomes of a run.
RunDownloads ==
  { [kind |-> "non2xx", h3 |-> <<>>],
    [kind |-> "ok", h3 |-> << Cand("A", "/a", "text") >>],
    [kind |-> "ok", h3 |-> << Cand("A", "/a", "text"), Cand("B", Undef, "text"),
                              Cand("B", "/a", "text") >>] }

\* Mutant of collectNews: the content is not checked.
RECURSIVE collectNewsNoContentCheck(_, _)
collectNewsNoContentCheck(headers, hidx) ==
  IF headers = <<>> THEN <<>>
  ELSE LET h == Head(headers)
       IN IF Falsy(h.title) \/ Falsy(h.link)
            THEN collectNewsNoContentCheck(Tail(headers), hidx + 1)
            ELSE <<[title |-> h.title, link |-> h.link, content |-> h.content,
                    h3 |-> hidx]>>
                 \o collectNewsNoContentCheck(Tail(headers), hidx + 1)

\* news.ts 75-90: the loop over the headers.  hidx is the heading's position
\* in the page; the h3 field of an article records it (history only).
RECURSIVE collectNews(_, _)
collectNews(headers, hidx) ==
  IF headers = <<>> THEN <<>>
  ELSE LET h == Head(headers)
       IN IF Falsy(h.title) \/ Falsy(h.link) \/ Falsy(h.content)
            THEN collectNews(Tail(headers), hidx + 1)
            ELSE <<[title |-> h.title, link |-> h.link, content |-> h.content,
                    h3 |-> hidx]>>
                 \o collectNews(Tail(headers), hidx + 1)

\* What axios.get throws on a failed download (news.ts 66).
DownloadError(o) ==
  [response |-> None, isError |-> TRUE, message |-> <<"Request", "failed", o.kind>>]

\* news.ts 66-92: the try block; axios.get throws on a failed download
fetchNewsTry(o) ==
  IF o.kind # "ok" THEN [thrown |-> TRUE, value |-> <<>>]
  ELSE [thrown |-> FALSE, value |-> collectNews(o.h3, 1)]

\* Mutant of fetchNews: the catch block rethrows.
fetchNewsRethrow(o) == fetchNewsTry(o)

\* news.ts 63-99: the catch block returns []
fetchNews(o) ==
  LET r == fetchNewsTry(o)
  IN IF r.thrown THEN [thrown |-> FALSE, value |-> <<>>] ELSE r

----------------------------------------------------------------------------
(* The output writers.  A post is [title, link, content, date, ...]; a     *)
(* written file is [name, ext, items], items being the rendered posts in   *)
(* the order of the output.                                                *)

\* rss.ts 47, html.ts 21: new Error(`No posts found for ${feedName}`)
NoPostsError(feedName) ==
  [response |-> None, isError |-> TRUE,
   message |-> <<"No", "posts", "found", "for", feedName>>]

\* Array.prototype.sort with (first, second) => second.date - first.date:
\* a stable sort, most recent first; it sorts the array it is called on.
RECURSIVE insertByDate(_, _)
insertByDate(sorted, p) ==
  IF sorted = <<>> THEN <<p>>
  ELSE IF Head(sorted).date >= p.date
         THEN <<Head(sorted)>> \o insertByDate(Tail(sorted), p)
         ELSE <<p>> \o sorted

RECURSIVE sortPosts(_)
sortPosts(posts) ==
  IF posts = <<>> THEN <<>>
  ELSE insertByDate(sortPosts(SubSeq(posts, 1, Len(posts) - 1)),
                    posts[Len(posts)])

Render(post) ==
  [title |-> post.title, link |-> post.link, content |-> post.content,
   date |-> post.date]

\* rss.ts 8-38: sortedPosts is posts itself, sorted in place
buildFeed(posts) ==
  LET sortedPosts == sortPosts(posts)
  IN [posts |-> sortedPosts,
      feedItems |-> [k \in 1..Len(sortedPosts) |-> Render(sortedPosts[k])]]

\* rss.ts 40-94.  posts: the caller's array after the call.
writeRssFeed(feedName, posts) ==
  IF Len(posts) = 0
    THEN [thrown |-> Some(NoPostsError(feedName)), posts |-> posts, file |-> None]
    ELSE LET built == buildFeed(posts)
         IN [thrown |-> None, posts |-> built.posts,
             file |-> Some([name |-> feedName, ext |-> "rss",
                            items |-> built.feedItems])]

DefaultMaxArticles == 50

\* Mutant of writeHtmlFeed: no check for an empty list.
writeHtmlFeedNoCheck(feedName, posts, maxArticles) ==
  LET inPlace == sortPosts(posts)
      sortedPosts == SubSeq(inPlace, 1, Min(maxArticles, Len(inPlace)))
  IN [thrown |-> None, posts |-> inPlace,
      file |-> Some([name |-> feedName, ext |-> "html",
                     items |-> [k \in 1..Len(sortedPosts) |->
                                   Render(sortedPosts[k])]])]

\* Mutant of writeHtmlFeed: the list is cut to maxArticles before it is
\* sorted.
writeHtmlFeedSliceFirst(feedName, posts, maxArticles) ==
  IF Len(posts) = 0
    THEN [thrown |-> Some(NoPostsError(feedName)), posts |-> posts, file |-> None]
    ELSE LET sortedPosts ==
               sortPosts(SubSeq(posts, 1, Min(maxArticles, Len(posts))))
         IN [thrown |-> None, posts |-> posts,
             file |-> Some([name |-> feedName, ext |-> "html",
                            items |-> [k \in 1..Len(sortedPosts) |->
                                          Render(sortedPosts[k])]])]

\* html.ts 13-102
writeHtmlFeed(feedName, posts, maxArticles) ==
  IF Len(posts) = 0
    THEN [thrown |-> Some(NoPostsError(feedName)), posts |-> posts, file |-> None]
    ELSE LET inPlace == sortPosts(posts)
             sortedPosts == SubSeq(inPlace, 1, Min(maxArticles, Len(inPlace)))
         IN [thrown |-> None, posts |-> inPlace,
             file |-> Some([name |-> feedName, ext |-> "html",
                            items |-> [k \in 1..Len(sortedPosts) |->
                                          Render(sortedPosts[k])]])]

\* fs writeFile: the file at that path is replaced
WriteFile(fs, f) ==
  {g \in fs : ~(g.name = f.name /\ g.ext = f.ext)} \cup {f}

----------------------------------------------------------------------------
(* History helpers *)

\* A rate-limit failure as the specification describes it: a structured
\* status 429, or an Error whose message contains "Status code 429".
RateLimited(e) ==
  \/ (e.response # None /\ e.response[1].status # None
        /\ e.response[1].status[1] = 429)
  \/ (e.isError /\ \E i \in 1..(Len(e.message) - 2) :
                      SubSeq(e.message, i, i + 2) = <<"Status", "code", "429">>)

Op(o, t, i) == [op |-> o, topic |-> t, item |-> i]

----------------------------------------------------------------------------
(* The state after construction: fetchFeeds() has run up to the top of its *)
(* loop over the feeds (index.ts 34-43).                                   *)

NoCall == [fn |-> "none", download |-> [kind |-> "ok", h3 |-> <<>>],
           feedName |-> "", posts |-> <<>>, maxArticles |-> 0,
           env |-> <<>>, items |-> <<>>]

Init ==
  /\ pc = "loop" /\ topic = 1
  /\ recentItems = <<>> /\ itemIdx = 1
  /\ feedNews = <<>> /\ dateWithNews = <<>>
  /\ files = {} /\ failure = None /\ returned = None
  /\ fpc = "idle" /\ attemptCount = 0 /\ fresult = None /\ delaySeconds = None
  /\ call = NoCall /\ ret = None
  /\ parseCalls = 0 /\ waits = 0 /\ n429 = 0
  /\ raised = None /\ lastDoc = None /\ warned = FALSE
  /\ handed = None /\ fatal = 0 /\ log = <<>>
  /\ scraped = <<>> /\ priorLimited = FALSE

\* Mutant of Throw: a per-topic catch that goes on with the next topic.
ThrowContinue(e) ==
  /\ pc' = "loop"
  /\ failure' = failure
  /\ topic' = topic + 1

\* A rejection of fetchFeeds: nothing in index.ts 43-82 catches, so it reaches
\* .catch(setFailed) of line 106 and the loop over the feeds is abandoned.
Throw(e) ==
  /\ pc' = "failed"
  /\ failure' = Some(e)
  /\ topic' = topic

NoThrow ==
  /\ failure' = failure
  /\ topic' = topic

----------------------------------------------------------------------------
(* getRSSFeed (news.ts 8-61) *)

\* news.ts 60
UnexpectedEnd ==
  [response |-> None, isError |-> TRUE,
   message |-> <<"Unexpected", "end", "of", "retry", "loop">>]

\* Mutant of StartTopic: attemptCount lives outside getRSSFeed and is not reset
\* when a call starts.
StartTopicKeepsCount ==
  /\ pc = "loop" /\ topic <= Len(feeds)
  /\ pc' = "fetch"
  /\ feedNews' = <<>>
  /\ fpc' = "attempt" /\ attemptCount' = attemptCount
  /\ fresult' = None /\ delaySeconds' = None
  /\ parseCalls' = 0 /\ waits' = 0 /\ n429' = 0
  /\ raised' = None /\ lastDoc' = None /\ warned' = FALSE
  /\ log' = Append(log, Op("fetch", topic, 0))
  /\ scraped' = <<>>
  /\ priorLimited' = (priorLimited \/ n429 > 0)
  /\ UNCHANGED <<topic, recentItems, itemIdx, dateWithNews, files, failure,
                 returned, handed, fatal, unitVars>>

\* index.ts 43-47, news.ts 8-19: the next topic; getRSSFeed is entered and its
\* first parser.parseURL is awaited.
StartTopic ==
  /\ pc = "loop" /\ topic <= Len(feeds)
  /\ pc' = "fetch"
  /\ feedNews' = <<>>
  /\ fpc' = "attempt" /\ attemptCount' = 0
  /\ fresult' = None /\ delaySeconds' = None
  /\ parseCalls' = 0 /\ waits' = 0 /\ n429' = 0
  /\ raised' = None /\ lastDoc' = None /\ warned' = FALSE
  /\ log' = Append(log, Op("fetch", topic, 0))
  /\ scraped' = <<>>
  /\ priorLimited' = (priorLimited \/ n429 > 0)
  /\ UNCHANGED <<topic, recentItems, itemIdx, dateWithNews, files, failure,
                 returned, handed, fatal, unitVars>>

\* news.ts 19: parser.parseURL resolves; the document is returned.
ParseSucceeds ==
  /\ pc = "fetch" /\ fpc = "attempt"
  /\ \E doc \in RunDocs(feeds[topic]) :
       /\ fresult' = Some(doc)
       /\ lastDoc' = Some(doc)
  /\ fpc' = "returned"
  /\ parseCalls' = parseCalls + 1
  /\ UNCHANGED <<pc, runVars, failure, attemptCount, delaySeconds, waits,
                 n429, raised, warned, fatal, unitVars>>

\* Mutant of warnsExhausted: the warning is logged whenever the last attempt
\* failed.
warnsExhaustedAnyError(e, count) == count > maxRetries

\* news.ts 34: the condition of the retries-exhausted warning
warnsExhausted(e, count) == is429Error(e) /\ count > maxRetries

\* news.ts 20-55: parser.parseURL rejects with e; the catch block either
\* rethrows e or starts the wait before the next attempt.
ParseFails(errs) ==
  /\ pc = "fetch" /\ fpc = "attempt"
  /\ \E e \in errs :
       LET count == attemptCount + 1
       IN /\ attemptCount' = count
          /\ parseCalls' = parseCalls + 1
          /\ raised' = Some(e)
          /\ n429' = IF RateLimited(e) THEN n429 + 1 ELSE n429
          /\ IF ~is429Error(e) \/ count > maxRetries
               THEN /\ warned' = warnsExhausted(e, count)
                    /\ fpc' = "thrown"
                    /\ Throw(e)
                    /\ fatal' = topic
                    /\ UNCHANGED <<delaySeconds, waits>>
               ELSE /\ delaySeconds' = Some(delaySecondsOf(e))
                    /\ waits' = waits + 1
                    /\ fpc' = "wait"
                    /\ NoThrow
                    /\ UNCHANGED <<pc, warned, fatal>>
  /\ UNCHANGED <<scraped, priorLimited, recentItems, itemIdx, feedNews, dateWithNews, files,
                 returned, handed, log, fresult, lastDoc, unitVars>>

\* news.ts 55, 17: the timer fires; the loop condition is evaluated and the
\* next parser.parseURL is awaited (or line 60 is reached).
WaitDone ==
  /\ pc = "fetch" /\ fpc = "wait"
  /\ delaySeconds' = None
  /\ raised' = None
  /\ IF attemptCount <= maxRetries
       THEN /\ fpc' = "attempt"
            /\ NoThrow
            /\ UNCHANGED <<pc, fatal>>
       ELSE /\ fpc' = "thrown"
            /\ Throw(UnexpectedEnd)
            /\ fatal' = topic
  /\ UNCHANGED <<scraped, priorLimited, recentItems, itemIdx, feedNews, dateWithNews, files,
                 returned, handed, log, attemptCount, fresult, parseCalls,
                 waits, n429, lastDoc, warned, unitVars>>

----------------------------------------------------------------------------
(* fetchFeeds (index.ts 34-82) *)

\* index.ts 47-60: getRSSFeed returned rssNews; its items are filtered.
FilterItems ==
  /\ pc = "fetch" /\ fpc = "returned"
  /\ recentItems' = filterRecent(fresult[1])
  /\ itemIdx' = 1
  /\ pc' = "items"
  /\ fpc' = "idle"
  /\ UNCHANGED <<scraped, priorLimited, topic, feedNews, dateWithNews, files, failure, returned,
                 handed, log, attemptCount, fresult, delaySeconds, fetchHist,
                 fatal, unitVars>>

\* Mutant of Stamp: every article is dated today.
StampToday(news, item, t, i) ==
  [k \in 1..Len(news) |->
     [title |-> news[k].title, link |-> news[k].link,
      content |-> news[k].content, h3 |-> news[k].h3,
      date |-> Now, topic |-> t, item |-> i]]

\* index.ts 67: { ...currentNews, date: item.isoDate }.  topic and item record
\* where the article came from (history only).
Stamp(news, item, t, i) ==
  [k \in 1..Len(news) |->
     [title |-> news[k].title, link |-> news[k].link,
      content |-> news[k].content, h3 |-> news[k].h3,
      date |-> item.isoDate[1], topic |-> t, item |-> i]]

\* index.ts 60-69: one item with a link and a date: fetchNews is awaited and
\* its articles are pushed.
ScrapeItem(downloads) ==
  /\ pc = "items" /\ itemIdx <= Len(recentItems)
  /\ LET item == recentItems[itemIdx]
     IN /\ item.link # None /\ item.isoDate # None
        /\ \E o \in downloads :
             LET r == fetchNews(o)
             IN /\ scraped' = Append(scraped,
                                     [item |-> itemIdx, link |-> item.link[1],
                                      isoDate |-> item.isoDate[1],
                                      failed |-> (o.kind # "ok"),
                                      news |-> r.value])
                /\ IF r.thrown
                     THEN /\ Throw(DownloadError(o))
                          /\ fatal' = topic
                          /\ UNCHANGED <<feedNews, itemIdx>>
                     ELSE /\ feedNews' = feedNews
                                           \o Stamp(r.value, item, topic, itemIdx)
                          /\ itemIdx' = itemIdx + 1
                          /\ NoThrow
                          /\ UNCHANGED <<pc, fatal>>
  /\ log' = Append(log, Op("scrape", topic, itemIdx))
  /\ UNCHANGED <<recentItems, dateWithNews, files, returned, handed, fpc,
                 attemptCount, fresult, delaySeconds, fetchHist, unitVars,
                 priorLimited>>

\* index.ts 60-61: an item without a link (or a date) is passed over.
SkipItem ==
  /\ pc = "items" /\ itemIdx <= Len(recentItems)
  /\ LET item == recentItems[itemIdx]
     IN item.link = None \/ item.isoDate = None
  /\ itemIdx' = itemIdx + 1
  /\ UNCHANGED <<scraped, priorLimited, pc, topic, recentItems, feedNews, dateWithNews, files,
                 failure, returned, handed, log, fpc, attemptCount, fresult,
                 delaySeconds, fetchHist, fatal, unitVars>>

\* index.ts 72: await writeRssFeed(feedName, feedNews)
CallWriteRssFeed ==
  /\ pc = "items" /\ itemIdx > Len(recentItems)
  /\ LET r == writeRssFeed(feeds[topic], feedNews)
     IN /\ feedNews' = r.posts
        /\ fatal' = IF Len(feedNews) = 0 \/ r.thrown # None THEN topic ELSE fatal
        /\ IF r.thrown # None
             THEN /\ Throw(r.thrown[1])
                  /\ UNCHANGED files
             ELSE /\ files' = WriteFile(files, r.file[1])
                  /\ pc' = "writeHtml"
                  /\ NoThrow
  /\ log' = Append(log, Op("rss", topic, 0))
  /\ UNCHANGED <<scraped, priorLimited, recentItems, itemIdx, dateWithNews, returned, handed, fpc,
                 attemptCount, fresult, delaySeconds, fetchHist, unitVars>>

\* Mutant of CallWriteHtmlFeed: writeHtmlFeed is called without await, so the
\* loop goes on while the file write is still pending.
CallWriteHtmlFeedNotAwaited ==
  /\ pc = "writeHtml"
  /\ LET r == writeHtmlFeed(feeds[topic], feedNews, DefaultMaxArticles)
     IN /\ feedNews' = r.posts
        /\ dateWithNews' = dateWithNews \o r.posts
  /\ pc' = "loop"
  /\ failure' = failure
  /\ topic' = topic + 1
  /\ log' = Append(log, Op("html", topic, 0))
  /\ UNCHANGED <<scraped, priorLimited, files, fatal, recentItems, itemIdx, returned, handed, fpc,
                 attemptCount, fresult, delaySeconds, fetchHist, unitVars>>

\* index.ts 73-76: await writeHtmlFeed(feedName, feedNews), then
\* dateWithNews.push(...feedNews) and the next iteration.
CallWriteHtmlFeed ==
  /\ pc = "writeHtml"
  /\ LET r == writeHtmlFeed(feeds[topic], feedNews, DefaultMaxArticles)
     IN /\ feedNews' = r.posts
        /\ fatal' = IF Len(feedNews) = 0 \/ r.thrown # None THEN topic ELSE fatal
        /\ IF r.thrown # None
             THEN /\ Throw(r.thrown[1])
                  /\ UNCHANGED <<files, dateWithNews>>
             ELSE /\ files' = WriteFile(files, r.file[1])
                  /\ dateWithNews' = dateWithNews \o r.posts
                  /\ pc' = "loop"
                  /\ failure' = failure
                  /\ topic' = topic + 1
  /\ log' = Append(log, Op("html", topic, 0))
  /\ UNCHANGED <<scraped, priorLimited, recentItems, itemIdx, returned, handed, fpc, attemptCount,
                 fresult, delaySeconds, fetchHist, unitVars>>

\* index.ts 78-81: after the last topic, await writeRssFeed("feed",
\* dateWithNews) and return dateWithNews.
CallWriteCombined ==
  /\ pc = "loop" /\ topic > Len(feeds)
  /\ handed' = Some(dateWithNews)
  /\ LET r == writeRssFeed("feed", dateWithNews)
     IN /\ dateWithNews' = r.posts
        /\ fatal' = IF Len(dateWithNews) = 0 \/ r.thrown # None THEN topic ELSE fatal
        /\ IF r.thrown # None
             THEN /\ Throw(r.thrown[1])
                  /\ UNCHANGED <<files, returned>>
             ELSE /\ files' = WriteFile(files, r.file[1])
                  /\ returned' = Some(r.posts)
                  /\ pc' = "done"
                  /\ NoThrow
  /\ log' = Append(log, Op("combined", topic, 0))
  /\ UNCHANGED <<scraped, priorLimited, recentItems, itemIdx, feedNews, fpc, attemptCount, fresult,
                 delaySeconds, fetchHist, unitVars>>

Next ==
  \/ StartTopic
  \/ ParseSucceeds
  \/ ParseFails(RunErrors)
  \/ WaitDone
  \/ FilterItems
  \/ ScrapeItem(RunDownloads)
  \/ SkipItem
  \/ CallWriteRssFeed
  \/ CallWriteHtmlFeed
  \/ CallWriteCombined

Spec == Init /\ [][Next]_vars

----------------------------------------------------------------------------
(* One getRSSFeed call: the state in which the call for the first topic    *)
(* awaits its first parser.parseURL, and every error shape.                *)

InitFetch ==
  /\ pc = "fetch" /\ topic = 1
  /\ recentItems = <<>> /\ itemIdx = 1
  /\ feedNews = <<>> /\ dateWithNews = <<>>
  /\ files = {} /\ failure = None /\ returned = None
  /\ fpc = "attempt" /\ attemptCount = 0 /\ fresult = None /\ delaySeconds = None
  /\ call = NoCall /\ ret = None
  /\ parseCalls = 0 /\ waits = 0 /\ n429 = 0
  /\ raised = None /\ lastDoc = None /\ warned = FALSE
  /\ handed = None /\ fatal = 0 /\ log = <<Op("fetch", 1, 0)>>
  /\ scraped = <<>> /\ priorLimited = FALSE

NextFetch ==
  \/ ParseSucceeds
  \/ ParseFails(Errors)
  \/ WaitDone

SpecFetch == InitFetch /\ [][NextFetch]_vars

\* parser.parseURL settles and the timer of line 55 fires: a pending attempt
\* or wait completes.
SpecFetchLive == SpecFetch /\ WF_vars(NextFetch)

----------------------------------------------------------------------------
(* fetchNews, writeRssFeed and writeHtmlFeed called on their own, as the   *)
(* test suites call them.                                                  *)

UnitPosts == [title : {"A", "B"}, link : {"/a"}, content : {"text"},
              date : {Now - 1, Now - 2}]
UnitNames == {"test", "tech", "feed"}
UnitMax == {1, 2, DefaultMaxArticles}

\* process.env.MAX_DAYS: unset, empty, "7" (part_001 163), "3", "abc", "7d"
UnitEnvs == {None, Some(<<>>), Some(<<"7">>), Some(<<"3">>),
             Some(<<"a", "b", "c">>), Some(<<"7", "d">>)}

\* isoDate of a feed item: absent, not a date, or 2, 5, 10 days old
\* (part_001 168-179)
UnitDates == {None, Some(InvalidDateString), Some(Now - 2), Some(Now - 5),
              Some(Now - 10)}

\* Feed documents of up to MaxItems items; item k links to article k.
UnitDocs ==
  UNION {{[k \in 1..n |-> Item(d[k], Link("test", k))] : d \in [1..n -> UnitDates]}
           : n \in 0..MaxItems}

\* The calls made on their own, by function.
FetchNewsCalls ==
  {[fn |-> "fetchNews", download |-> d, feedName |-> "", posts |-> <<>>,
    maxArticles |-> 0, env |-> <<>>, items |-> <<>>] : d \in Downloads}

WriterCalls ==
  {[fn |-> "writeRssFeed", download |-> NoCall.download, feedName |-> n,
    posts |-> p, maxArticles |-> 0, env |-> <<>>, items |-> <<>>] :
      n \in UnitNames, p \in SeqsUpTo(UnitPosts, MaxPosts)}
  \cup {[fn |-> "writeHtmlFeed", download |-> NoCall.download, feedName |-> n,
         posts |-> p, maxArticles |-> m, env |-> <<>>, items |-> <<>>] :
           n \in UnitNames, p \in SeqsUpTo(UnitPosts, MaxPosts), m \in UnitMax}

RecentItemsCalls ==
  {[fn |-> "recentItems", download |-> NoCall.download, feedName |-> "",
    posts |-> <<>>, maxArticles |-> 0, env |-> e, items |-> i] :
      e \in UnitEnvs, i \in UnitDocs}

InitUnit ==
  /\ pc = "loop" /\ topic = 1
  /\ recentItems = <<>> /\ itemIdx = 1
  /\ feedNews = <<>> /\ dateWithNews = <<>>
  /\ files = {} /\ failure = None /\ returned = None
  /\ fpc = "idle" /\ attemptCount = 0 /\ fresult = None /\ delaySeconds = None
  /\ (call \in FetchNewsCalls \/ call \in WriterCalls
        \/ call \in RecentItemsCalls)
  /\ ret = None
  /\ parseCalls = 0 /\ waits = 0 /\ n429 = 0
  /\ raised = None /\ lastDoc = None /\ warned = FALSE
  /\ handed = None /\ fatal = 0 /\ log = <<>>
  /\ scraped = <<>> /\ priorLimited = FALSE

notUnit == <<pc, topic, recentItems, itemIdx, feedNews, dateWithNews,
             failure, returned, fpc, attemptCount, fresult, delaySeconds,
             fetchHist, handed, fatal, log, scraped, priorLimited>>

ApplyFetchNews ==
  /\ call.fn = "fetchNews" /\ ret = None
  /\ ret' = Some(fetchNews(call.download))
  /\ UNCHANGED <<call, files, notUnit>>

ApplyWriteRssFeed ==
  /\ call.fn = "writeRssFeed" /\ ret = None
  /\ LET r == writeRssFeed(call.feedName, call.posts)
     IN /\ ret' = Some(r)
        /\ files' = IF r.file = None THEN files ELSE WriteFile(files, r.file[1])
  /\ UNCHANGED <<call, notUnit>>

ApplyWriteHtmlFeed ==
  /\ call.fn = "writeHtmlFeed" /\ ret = None
  /\ LET r == writeHtmlFeed(call.feedName, call.posts, call.maxArticles)
     IN /\ ret' = Some(r)
        /\ files' = IF r.file = None THEN files ELSE WriteFile(files, r.file[1])
  /\ UNCHANGED <<call, notUnit>>

\* index.ts 12, 36-54 with process.env.MAX_DAYS = call.env and
\* rssNews.items = call.items.  cutoffDate.toISOString() of line 40 throws a
\* RangeError on an Invalid Date, so the filter is then never reached.
ApplyRecentItems ==
  /\ call.fn = "recentItems" /\ ret = None
  /\ LET maxDays == maxDaysOf(call.env)
         cutoff == cutoffDateOf(maxDays)
     IN ret' = Some([maxDays |-> maxDays, cutoff |-> cutoff,
                     thrown |-> (cutoff = None),
                     items |-> IF cutoff = None THEN <<>>
                               ELSE filterItems(call.items, cutoff)])
  /\ UNCHANGED <<call, files, notUnit>>

NextUnit ==
  \/ ApplyFetchNews
  \/ ApplyWriteRssFeed
  \/ ApplyWriteHtmlFeed
  \/ ApplyRecentItems

SpecUnit == InitUnit /\ [][NextUnit]_vars

----------------------------------------------------------------------------
(* Claims about getRSSFeed, checked under SpecFetch *)

\* Every failure of the current call so far was a rate-limit failure.
OnlyRateLimited == n429 = attemptCount

\* C1: when the first k attempts (0 <= k <= 6) fail rate limited and attempt
\* k+1 succeeds, the call returns the document of attempt k+1 after exactly
\* k+1 parser invocations, and nothing is attempted after the success; after
\* k <= 6 rate-limit failures the call is still going on to attempt k+1.
C1_RetryThenSuccess ==
  /\ [](/\ (OnlyRateLimited /\ lastDoc # None) =>
              /\ fpc = "returned"
              /\ fresult = lastDoc
              /\ parseCalls = n429 + 1
              /\ n429 <= 6
        /\ (OnlyRateLimited /\ lastDoc = None /\ parseCalls <= 6) =>
              fpc \in {"attempt", "wait"})
  /\ [][fpc = "returned" => UNCHANGED <<fpc, parseCalls, fresult>>]_vars

C1_Witness ==
  /\ fpc = "returned" /\ fresult = lastDoc /\ fresult # None
  /\ n429 = 6 /\ parseCalls = 7

\* C2: seven consecutive rate-limit failures end the call after exactly seven
\* attempts, with the error of the seventh attempt; there is never an eighth.
C2_ExhaustedAfterSeven ==
  /\ parseCalls <= 7
  /\ (n429 = 7) =>
        /\ fpc = "thrown" /\ pc = "failed"
        /\ parseCalls = 7
        /\ raised # None /\ failure = raised

C2_Witness ==
  /\ n429 = 7 /\ fpc = "thrown" /\ failure = Some(Error429Message)

\* C3: an attempt n that fails with an error that is not a rate-limit error
\* ends the call at once with that error: no wait is started for it, nothing
\* is attempted afterwards, and n attempts were made in all.
C3_FatalNotRetried ==
  /\ [](raised # None /\ ~RateLimited(raised[1]) =>
          /\ fpc = "thrown" /\ pc = "failed"
          /\ failure = raised
          /\ delaySeconds = None
          /\ parseCalls = n429 + 1
          /\ waits = n429)
  /\ [][fpc = "thrown" => UNCHANGED <<fpc, parseCalls, waits, failure>>]_vars

C3_Witness ==
  /\ fpc = "thrown" /\ raised = Some(Error404) /\ failure = Some(Error404)
  /\ parseCalls = 7 /\ waits = 6

\* C4: a failure is treated as a rate-limit failure exactly when it carries
\* response.status = 429 or is an Error whose message contains "Status code
\* 429"; either shape is retried while fewer than 7 attempts were made and
\* exhausts the call at the 7th, and no other shape is retried.
C4_Classification ==
  raised # None =>
    LET e == raised[1]
    IN /\ (fpc = "wait") = (RateLimited(e) /\ parseCalls <= 6)
       /\ (fpc = "thrown") = (~RateLimited(e) \/ parseCalls = 7)
       /\ warned = (RateLimited(e) /\ parseCalls = 7)

C4_Witness ==
  /\ fpc = "thrown" /\ warned /\ parseCalls = 7
  /\ raised # None /\ raised[1].response = None

\* The decimal value of a string of digits, read from its last digit.
RECURSIVE DecimalValue(_)
DecimalValue(h) ==
  IF h = <<>> THEN 0
  ELSE 10 * DecimalValue(SubSeq(h, 1, Len(h) - 1)) + DigitVal(h[Len(h)])

AllDigits(h) == h # <<>> /\ \A k \in 1..Len(h) : IsDigit(h[k])

\* The hint has no integer at its start: after leading blanks comes neither a
\* digit nor a sign followed by a digit.
NoLeadingInteger(h) ==
  LET first == {k \in 1..Len(h) : h[k] # " "}
  IN \/ first = {}
     \/ LET k == CHOOSE k \in first : \A j \in first : k <= j
        IN /\ ~IsDigit(h[k])
           /\ ~(h[k] \in {"-", "+"} /\ k < Len(h) /\ IsDigit(h[k + 1]))

----------------------------------------------------------------------------
(* Claims about the run, checked under Spec *)

\* The articles of s are in topic order, within a topic in feed-item order,
\* and within a feed item in document order.
TopicThenItemOrder(s) ==
  \A a, b \in 1..Len(s) :
     a < b =>
       \/ s[a].topic < s[b].topic
       \/ (s[a].topic = s[b].topic /\ s[a].item < s[b].item)
       \/ (s[a].topic = s[b].topic /\ s[a].item = s[b].item
             /\ s[a].h3 < s[b].h3)

\* C6: the list handed to the combined-feed writer and the list the
\* aggregation returns are in topic order and, within a topic, in feed-item
\* order.
C6_CombinedInTopicItemOrder ==
  /\ handed # None => TopicThenItemOrder(handed[1])
  /\ returned # None => TopicThenItemOrder(returned[1])

\* Nothing was done for a topic after topic t, and no combined feed exists.
NoLaterWork(t) ==
  /\ \A k \in 1..Len(log) : log[k].topic <= t
  /\ \A f \in files : \E u \in 1..Len(feeds) : u <= t /\ f.name = feeds[u]
  /\ handed = None /\ returned = None

\* C7: once a fatal condition is raised while topic i is processed, the run
\* has failed and takes no further step: no feed of a later topic is fetched,
\* no later article scraped, no later output and no combined feed written.
C7_RunStopsOnFatal ==
  /\ [](fatal # 0 => /\ pc = "failed" /\ failure # None
                     /\ NoLaterWork(fatal))
  /\ [][fatal # 0 => UNCHANGED <<pc, topic, log, files, fpc, parseCalls,
                                 feedNews, dateWithNews>>]_vars

C7_Witness ==
  /\ fatal = 1 /\ Len(feeds) > 1 /\ pc = "failed"
  /\ failure = Some(NoPostsError(feeds[1]))
  /\ files = {}

\* The outcomes of a getRSSFeed call.
Succeeded == fpc = "returned" /\ fresult # None /\ failure = None
FailedFatal ==
  fpc = "thrown" /\ failure = raised /\ raised # None /\ ~RateLimited(raised[1])
Exhausted ==
  /\ fpc = "thrown" /\ failure = raised /\ raised # None
  /\ RateLimited(raised[1]) /\ parseCalls = 7

\* C16: every getRSSFeed call ends, in exactly one of three outcomes: the
\* document of a successful attempt, the error of a failure that is not a
\* rate limit, or the rate-limit error of the seventh attempt; it makes at
\* most 7 attempts and 6 waits, and never raises "Unexpected end of retry
\* loop".
C16_CallEndsInOneOutcome ==
  /\ <>(fpc \in {"returned", "thrown"})
  /\ [](fpc \in {"returned", "thrown"} =>
          \/ (Succeeded /\ ~FailedFatal /\ ~Exhausted)
          \/ (~Succeeded /\ FailedFatal /\ ~Exhausted)
          \/ (~Succeeded /\ ~FailedFatal /\ Exhausted))
  /\ [](parseCalls <= 7 /\ waits <= 6)
  /\ [](failure # Some(UnexpectedEnd))
  /\ [][(fpc \in {"returned", "thrown"}) => UNCHANGED vars]_vars

\* Seven attempts and six waits: the call ends with the rate-limit error.
C16_Witness == Exhausted /\ parseCalls = 7 /\ waits = 6

\* Attempts started and waits completed by the current call.
AttemptsStarted == parseCalls + (IF fpc = "attempt" THEN 1 ELSE 0)
WaitsCompleted == waits - (IF fpc = "wait" THEN 1 ELSE 0)

\* C17: waits and attempts alternate: an attempt other than the first starts
\* when a wait completes and only then, a wait starts only after a rate-limit
\* failure of one of the attempts 1..6, a rate-limit failure of attempt 7
\* fails the call without a wait, and the number of completed waits is the
\* number of attempts minus one.
C17_WaitsAndAttemptsAlternate ==
  /\ [](WaitsCompleted = AttemptsStarted - 1)
  /\ [][(fpc' = "attempt" /\ fpc # "attempt")
         => (fpc = "wait" /\ waits' = waits /\ parseCalls' = parseCalls)]_vars
  /\ [][(fpc = "wait" /\ fpc' # "wait") => fpc' = "attempt"]_vars
  /\ [][(fpc' = "wait" /\ fpc # "wait")
         => (/\ fpc = "attempt" /\ waits' = waits + 1
             /\ parseCalls' = parseCalls + 1 /\ parseCalls' <= 6
             /\ raised' # None /\ RateLimited(raised'[1]))]_vars
  /\ [][(fpc = "attempt" /\ parseCalls' = 7 /\ raised' # None
           /\ RateLimited(raised'[1]))
         => (fpc' = "thrown" /\ waits' = waits /\ failure' = raised')]_vars

\* The third attempt is pending after two waits.
C17_Witness == fpc = "attempt" /\ parseCalls = 2 /\ waits = 2 /\ n429 = 2

\* C18: the retries-exhausted warning is logged exactly when the seventh
\* attempt fails rate limited, not later than the error is raised to the
\* caller; it is never logged when the call succeeds or fails with another
\* error, on the seventh attempt included.
C18_WarningOnlyOnExhaustion ==
  /\ [](warned <=> (fpc = "thrown" /\ parseCalls = 7 /\ raised # None
                      /\ RateLimited(raised[1])))
  /\ [][(fpc = "attempt" /\ parseCalls' = 7 /\ raised' # None
           /\ RateLimited(raised'[1]))
         => (warned' /\ failure' = raised')]_vars
  /\ [][(warned' /\ ~warned) => (failure = None /\ failure' # None)]_vars

\* The seventh attempt failed with an error that is not a rate limit: no
\* warning.
C18_Witness ==
  /\ fpc = "thrown" /\ parseCalls = 7 /\ waits = 6
  /\ raised # None /\ ~RateLimited(raised[1]) /\ ~warned

----------------------------------------------------------------------------
(* Claims about the writers and the scraper called on their own, checked   *)
(* under SpecUnit                                                          *)

\* C8: a writer handed an empty list fails with an error whose message names
\* the feed, and writes no file; for any feed name, "feed" included.
C8_EmptyListFails ==
  (ret # None /\ call.fn \in {"writeRssFeed", "writeHtmlFeed"}
     /\ call.posts = <<>>) =>
    /\ ret[1].thrown # None
    /\ ret[1].thrown[1].message = <<"No", "posts", "found", "for", call.feedName>>
    /\ ret[1].file = None
    /\ files = {}

C8_Witness ==
  /\ ret # None /\ call.fn = "writeHtmlFeed" /\ call.posts = <<>>
  /\ call.feedName = "feed" /\ ret[1].thrown # None

\* C9: fetchNews never throws; when the download or the parse fails it
\* returns the empty sequence.
C9_ScrapeNeverThrows ==
  (ret # None /\ call.fn = "fetchNews") =>
    /\ ~ret[1].thrown
    /\ (call.download.kind # "ok" => ret[1].value = <<>>)

C9_Witness ==
  /\ ret # None /\ call.fn = "fetchNews" /\ call.download.kind = "network"
  /\ ret[1].value = <<>>

\* A candidate with a non-empty title, link and content.
Complete(c) ==
  /\ c.title # Undef /\ c.title # ""
  /\ c.link # Undef /\ c.link # ""
  /\ c.content # Undef /\ c.content # ""

\* C10: for a downloaded page, fetchNews returns exactly the complete
\* candidates, each with its own title, link and content, in the document
\* order of their headings.
C10_CompleteCandidatesInOrder ==
  (ret # None /\ call.fn = "fetchNews" /\ call.download.kind = "ok") =>
    LET cands == call.download.h3
        news == ret[1].value
        complete == {k \in 1..Len(cands) : Complete(cands[k])}
    IN /\ Len(news) = Cardinality(complete)
       /\ \A k \in 1..Len(news) :
             /\ news[k].h3 \in complete
             /\ news[k].title = cands[news[k].h3].title
             /\ news[k].link = cands[news[k].h3].link
             /\ news[k].content = cands[news[k].h3].content
       /\ \A k \in 1..(Len(news) - 1) : news[k].h3 < news[k + 1].h3
       /\ (complete = 1..Len(cands) => Len(news) = Len(cands))

C10_Witness ==
  /\ ret # None /\ call.fn = "fetchNews" /\ call.download.kind = "ok"
  /\ Len(call.download.h3) = 3
  /\ Complete(call.download.h3[1])
  /\ ~Complete(call.download.h3[2])
  /\ Complete(call.download.h3[3])
  /\ Len(ret[1].value) = 2
  /\ ret[1].value[1].title = "A" /\ ret[1].value[2].title = "B"

\* Rendered article r shows post p.
Shows(r, p) ==
  /\ r.title = p.title /\ r.link = p.link
  /\ r.content = p.content /\ r.date = p.date

\* C15: writeHtmlFeed handed n >= 1 posts renders exactly the
\* min(n, maxArticles) most recent of them, most recent first, and no post
\* beyond the limit; maxArticles is 50 unless the caller passes another value.
C15_HtmlShowsMostRecent ==
  (call.fn = "writeHtmlFeed" /\ ret # None /\ Len(call.posts) >= 1) =>
    /\ ret[1].thrown = None /\ ret[1].file # None
    /\ LET shown == ret[1].file[1].items
           n == Len(call.posts)
           limit == IF n < call.maxArticles THEN n ELSE call.maxArticles
       IN /\ Len(shown) = limit
          /\ \A i, j \in 1..Len(shown) :
               i < j => shown[i].date >= shown[j].date
          /\ \E f \in [1..Len(shown) -> 1..n] :
               /\ \A i, j \in 1..Len(shown) : i # j => f[i] # f[j]
               /\ \A i \in 1..Len(shown) : Shows(shown[i], call.posts[f[i]])
               /\ \A p \in 1..n :
                    (\A i \in 1..Len(shown) : f[i] # p) =>
                      \A i \in 1..Len(shown) :
                         shown[i].date >= call.posts[p].date

\* Two posts, the older one first, and a limit of one: only the newer post
\* is rendered.
C15_Witness ==
  /\ call.fn = "writeHtmlFeed" /\ ret # None
  /\ Len(call.posts) = 2 /\ call.maxArticles = 1
  /\ call.posts[1].date < call.posts[2].date
  /\ Len(ret[1].file[1].items) = 1
  /\ Shows(ret[1].file[1].items[1], call.posts[2])

\* C20: a writer leaves the list it is handed unchanged: after the call the
\* caller's list has the same elements in the same order.
C20_WritersLeaveListUnchanged ==
  (call.fn \in {"writeRssFeed", "writeHtmlFeed"} /\ ret # None) =>
    ret[1].posts = call.posts

----------------------------------------------------------------------------
(* Claims about the date filter and the lookback window, checked under     *)
(* SpecUnit                                                                *)

\* The positions of `items` whose item has a publish date that is a date and
\* is not older than `days` days.
RecentPositions(items, days) ==
  {k \in 1..Len(items) :
     /\ items[k].isoDate # None
     /\ items[k].isoDate[1] # InvalidDateString
     /\ items[k].isoDate[1] >= Now - days}

\* The j-th smallest element of the set of positions K.
NthOf(K, j) == CHOOSE k \in K : Cardinality({i \in K : i < k}) = j - 1

\* C11: with a lookback of lookbackDays days, the date filter keeps exactly
\* the feed items that have a publish date at or after now - lookbackDays, in
\* their original relative order; items with a missing or unparseable date and
\* items older than the cutoff are excluded.
C11_FilterKeepsRecentInOrder ==
  (call.fn = "recentItems" /\ ret # None /\ ret[1].maxDays # None) =>
    LET K == RecentPositions(call.items, ret[1].maxDays[1])
        kept == ret[1].items
    IN /\ Len(kept) = Cardinality(K)
       /\ \A j \in 1..Len(kept) : kept[j] = call.items[NthOf(K, j)]

\* The case of the test suite (MAX_DAYS = 7; items 2, 10 and 5 days old and
\* one without a usable date): the first and the third item are kept.
C11_Witness ==
  /\ call.fn = "recentItems" /\ ret # None
  /\ call.env = Some(<<"7">>)
  /\ call.items = << Item(Some(Now - 2), Link("test", 1)),
                     Item(Some(Now - 10), Link("test", 2)),
                     Item(Some(Now - 5), Link("test", 3)),
                     Item(Some(InvalidDateString), Link("test", 4)) >>
  /\ ret[1].items = << call.items[1], call.items[3] >>

\* A setting that starts (after blanks and a sign) with a decimal digit.
HasLeadingInteger(v) == ~NoLeadingInteger(v)

\* C13: the lookback window is the integer value of the MAX_DAYS setting when
\* the setting is set and numeric, and 10 when it is unset or not numeric.
C13_LookbackFromEnvironment ==
  (call.fn = "recentItems" /\ ret # None) =>
    IF call.env # None /\ HasLeadingInteger(call.env[1])
      THEN ret[1].maxDays = parseInt(call.env[1])
      ELSE ret[1].maxDays = Some(10)

----------------------------------------------------------------------------
(* Claims about the order of operations of a run, checked under Spec       *)

\* Operation b may be the one started next after operation a.
Follows(a, b) ==
  \/ a.op = "fetch" /\ b.topic = a.topic /\ b.op \in {"scrape", "rss"}
  \/ a.op = "scrape" /\ b.topic = a.topic
        /\ (b.op = "rss" \/ (b.op = "scrape" /\ b.item > a.item))
  \/ a.op = "rss" /\ b.topic = a.topic /\ b.op = "html"
  \/ a.op = "html" /\ b.topic = a.topic + 1 /\ b.op \in {"fetch", "combined"}

\* Both outputs of topic t are on disk.
OutputsWritten(t) ==
  \A e \in {"rss", "html"} : \E f \in files : f.name = feeds[t] /\ f.ext = e

\* C12: topics are processed strictly one after another: a topic's fetch is
\* followed by its scrapes in item order and then its two writes, the fetch
\* of the next topic starts only when both outputs of the previous topic are
\* written, and while a fetch attempt or a wait is pending no other operation
\* starts and no file is written.
C12_OneOperationAtATime ==
  /\ [](/\ \A k \in 1..(Len(log) - 1) : Follows(log[k], log[k + 1])
        /\ (log # <<>> => log[1] = Op("fetch", 1, 0))
        /\ \A k \in 1..Len(log) :
             (log[k].op \in {"fetch", "combined"} /\ log[k].topic > 1)
               => OutputsWritten(log[k].topic - 1)
        /\ (fpc \in {"attempt", "wait"} =>
              pc = "fetch" /\ log[Len(log)] = Op("fetch", topic, 0)))
  /\ [][(fpc \in {"attempt", "wait"} /\ fpc' \in {"attempt", "wait"})
         => UNCHANGED <<log, files, feedNews, dateWithNews, pc>>]_vars

\* A complete run of two topics, the first with two scraped items and a
\* retried fetch of the second.
C12_Witness ==
  /\ pc = "done" /\ Len(feeds) > 1
  /\ \E i, j, k \in 1..Len(log) :
       /\ i < j /\ j < k
       /\ log[i] = Op("scrape", 1, 1)
       /\ log[j] = Op("scrape", 1, 2)
       /\ log[k] = Op("fetch", 2, 0)

\* How many articles the scrapes recorded in sc returned in all.
RECURSIVE ArticlesReturned(_)
ArticlesReturned(sc) ==
  IF sc = <<>> THEN 0 ELSE Len(Head(sc).news) + ArticlesReturned(Tail(sc))

\* Article a is article n of what scrape s returned, dated as the item of s.
StampedFrom(a, s, n) ==
  /\ a.date = s.isoDate
  /\ a.title = s.news[n].title
  /\ a.link = s.news[n].link
  /\ a.content = s.news[n].content
  /\ a.h3 = s.news[n].h3

\* Scrape s was made for an item that survived the date filter.
OfSurvivingItem(s) ==
  /\ s.item \in 1..Len(recentItems)
  /\ recentItems[s.item] = Item(Some(s.isoDate), Some(s.link))
  /\ s.isoDate >= Now - 10
  /\ \E k \in 1..Len(lastDoc[1]) : lastDoc[1][k] = recentItems[s.item]

\* C14: every article of a topic's result has the title, link and content
\* of an article some scrape of one of the topic's surviving items returned,
\* and the publish date of that item; the result holds nothing else.
C14_ArticlesCarryItemDate ==
  /\ \A k \in 1..Len(feedNews) :
       \E j \in 1..Len(scraped) :
          /\ OfSurvivingItem(scraped[j])
          /\ feedNews[k].topic = topic \/ feedNews[k].topic = topic - 1
          /\ feedNews[k].item = scraped[j].item
          /\ \E n \in 1..Len(scraped[j].news) :
                StampedFrom(feedNews[k], scraped[j], n)
  /\ Len(feedNews) = ArticlesReturned(scraped)

\* A topic with two surviving items of different dates, each scraped with an
\* article returned.
C14_Witness ==
  /\ pc = "items" /\ Len(scraped) = 2 /\ Len(feedNews) >= 3
  /\ scraped[1].isoDate # scraped[2].isoDate
  /\ \E k \in 1..Len(feedNews) : feedNews[k].date = scraped[1].isoDate
  /\ \E k \in 1..Len(feedNews) : feedNews[k].date = scraped[2].isoDate

\* The surviving items before position n that have a link, i.e. the items
\* the loop of index.ts 60-70 scrapes before it reaches position n.
LinkedBefore(n) ==
  {j \in 1..Len(recentItems) : j < n /\ recentItems[j].link # None}

\* C19: a failed scrape of one feed item ends neither the topic nor the run:
\* the step that fails adds no article and moves on to the next item, the
\* surviving items are all scraped, in order, the articles of the other items
\* are in the topic's result, and the run fails in such a topic only when the
\* topic has no article at all.
C19_ScrapeFailureIsSkipped ==
  /\ [](/\ \A k \in 1..(Len(scraped) - 1) : scraped[k].item < scraped[k + 1].item
        /\ (pc \in {"items", "writeHtml"} =>
              {scraped[k].item : k \in 1..Len(scraped)} =
                LinkedBefore(IF pc = "items" THEN itemIdx
                             ELSE Len(recentItems) + 1))
        /\ \A k \in 1..Len(scraped) : \A n \in 1..Len(scraped[k].news) :
             \E a \in 1..Len(feedNews) :
                StampedFrom(feedNews[a], scraped[k], n)
        /\ ((pc = "failed" /\ \E k \in 1..Len(scraped) : scraped[k].failed) =>
              (feedNews = <<>> /\ failure = Some(NoPostsError(feeds[topic])))))
  /\ [][(Len(scraped') = Len(scraped) + 1 /\ scraped'[Len(scraped')].failed)
         => (/\ pc' = "items" /\ failure' = None
             /\ itemIdx' = itemIdx + 1 /\ feedNews' = feedNews)]_vars

\* The scrape of the first item failed, the second item was scraped all the
\* same and its articles are being written.
C19_Witness ==
  /\ pc = "writeHtml" /\ Len(scraped) = 2
  /\ scraped[1].failed /\ ~scraped[2].failed
  /\ feedNews # <<>>
  /\ \A k \in 1..Len(feedNews) : feedNews[k].item = scraped[2].item

\* The step starts the feed fetch of a topic.
FetchStarts ==
  Len(log') = Len(log) + 1 /\ log'[Len(log')].op = "fetch"

\* The pending attempt fails rate limited in this step.
FailsRateLimited ==
  /\ fpc = "attempt" /\ parseCalls' = parseCalls + 1
  /\ raised' # None /\ RateLimited(raised'[1])

\* C21: the retry budget is per call: the feed fetch of every topic starts
\* with its first attempt and a count of zero, whatever earlier calls went
\* through; in every call the count is the number of failures of that call, a
\* rate-limit failure of one of the attempts 1..6 is followed by a wait, and
\* only the one of attempt 7 fails the call.
C21_BudgetPerCall ==
  /\ [][FetchStarts => (/\ attemptCount' = 0 /\ fpc' = "attempt"
                        /\ parseCalls' = 0 /\ waits' = 0)]_vars
  /\ [](fpc \in {"attempt", "wait"} =>
          (attemptCount = parseCalls /\ attemptCount = n429
             /\ attemptCount <= 6))
  /\ [][FailsRateLimited =>
          IF parseCalls' <= 6
            THEN fpc' = "wait" /\ failure' = None
            ELSE fpc' = "thrown" /\ parseCalls' = 7 /\ waits' = 6]_vars

\* After an earlier topic was rate limited, the fetch of the second topic
\* used all of its seven attempts.
C21_Witness ==
  /\ topic = 2 /\ priorLimited
  /\ fpc = "thrown" /\ parseCalls = 7 /\ waits = 6
  /\ raised # None /\ RateLimited(raised[1])

\* The file of the combined feed, ./static/feed.rss, is in fs.
CombinedIn(fs) == \E f \in fs : f.name = "feed" /\ f.ext = "rss"

\* File ext of topic t is in fs.
OutputIn(fs, t, ext) == \E f \in fs : f.name = feeds[t] /\ f.ext = ext

\* Operation o of topic t was started.
Logged(o, t) == \E k \in 1..Len(log) : log[k].op = o /\ log[k].topic = t

\* C22: the combined feed is written at most once, and only when every
\* configured topic had its feed fetched, yielded at least one article and
\* had its RSS and its HTML output written; a topic's RSS output is written
\* before its HTML output; a topic with an empty result has no output.
C22_CombinedAfterAllTopics ==
  /\ [](/\ Cardinality({k \in 1..Len(log) : log[k].op = "combined"}) <= 1
        /\ ((CombinedIn(files) \/ handed # None) =>
              \A t \in 1..Len(feeds) :
                 /\ Logged("fetch", t) /\ Logged("rss", t) /\ Logged("html", t)
                 /\ OutputIn(files, t, "rss") /\ OutputIn(files, t, "html")
                 /\ \E a \in 1..Len(dateWithNews) : dateWithNews[a].topic = t)
        /\ \A t \in 1..Len(feeds) :
             /\ OutputIn(files, t, "html") => OutputIn(files, t, "rss")
             /\ failure = Some(NoPostsError(feeds[t])) =>
                  (~OutputIn(files, t, "rss") /\ ~OutputIn(files, t, "html"))
        /\ \A f \in files : f.items # <<>>)
  /\ [][CombinedIn(files) => UNCHANGED <<files, log, handed>>]_vars
  /\ [][(CombinedIn(files') /\ ~CombinedIn(files))
         => (pc = "loop" /\ topic = Len(feeds) + 1 /\ pc' = "done")]_vars

\* The run is over: both outputs of every topic and the combined feed are
\* written.
C22_Witness ==
  /\ pc = "done" /\ CombinedIn(files) /\ Len(feeds) > 1
  /\ \A t \in 1..Len(feeds) :
       OutputIn(files, t, "rss") /\ OutputIn(files, t, "html")

----------------------------------------------------------------------------
====
